---------------------------- MODULE Spec2Model ----------------------------
(***************************************************************************)
(* A model of the parallel task runner: the Orchestrator's planning        *)
(* (validation, dependency resolution into batches, plan creation), the    *)
(* SQLite event store (EventStoreV2) and the Worker class that reports     *)
(* through it.  Every definition is translated from the Python source;     *)
(* the store methods that the callers use but the store does not define    *)
(* (create_worker, create_plan) are modelled from the design document and  *)
(* marked so where they are defined.                                       *)
(***************************************************************************)
EXTENDS Integers, Sequences, FiniteSets, TLC

\* ------------------------------------------------------------------ bounds
\* Longest task list read from the tasks file.
MaxTasks == 3
\* Longest dependency list of one task.
MaxDeps == 2

\* Most events appended to the log by direct calls of append_event.
MaxEvents == 2
\* Most rows table blocks is given.
MaxBlocks == 3
\* The clock stops after this many ticks.
MaxTime == 4
\* Longest duration (seconds) a block is created with.
MaxDuration == 1
\* Largest max_retries a block is created with.
MaxRetries == 2

\* The longest timeout, in seconds, detect_dead_workers is called with.
MaxTimeout == 1

\* Task names are opaque tokens; the i-th name of the pool is i.
Names == 1..MaxTasks

VARIABLES
    task_defs,   \* Orchestrator.task_defs: the loaded TaskDefinition list
    pc,          \* "loading" until execute is called, then how it ended
    exc,         \* the exception execute raised (NoExc when none)
    calls,       \* the Orchestrator methods execute has entered, in order
    batches,     \* Orchestrator.batches: list of lists of tasks (positions in task_defs)
    all_results, \* the result list execute returns
    plans,       \* table plans of the store
    workers,     \* table workers of the store: worker id -> row, or NoRow
    events,      \* table events of the store, in id order
    procs,       \* subprocesses launched so far
    worker_objs, \* the worker ids a Worker object has been constructed for
    last_call,   \* the last call of a Worker method and how it ended
    tasks,       \* table tasks of the store: the rows (id, state)
    blocks,      \* table blocks of the store, in id order
    block_seq,   \* the largest id table blocks has handed out (AUTOINCREMENT)
    now,         \* the wall clock (UTC), in ticks
    last_query,  \* the last call of a store query or of create_block, and its result
    last_gate,   \* the last run of a gate hook and how the process exited
    blocked_checks, \* per gate hook, the runs in a row that exited with the block value
    events_file  \* events.jsonl of the legacy EventStore: its lines, in file order

\* The tables and the clock that the planning run and the Worker methods
\* leave alone.
store_ext ==
    <<tasks, blocks, block_seq, now, last_query, last_gate, blocked_checks,
      events_file>>

vars == <<task_defs, pc, exc, calls, batches, all_results, plans, workers,
          events, procs, worker_objs, last_call, tasks, blocks, block_seq, now,
          last_query, last_gate, blocked_checks, events_file>>

\* ------------------------------------------------------- task definitions
RECURSIVE SortedSeq(_)
\* A dependency list: the names of S in increasing order.
SortedSeq(S) ==
    IF S = {} THEN <<>>
    ELSE LET m == CHOOSE x \in S : \A y \in S : x <= y
         IN <<m>> \o SortedSeq(S \ {m})

\* TaskDefinition.dependencies as the tasks file can give it.
DepLists == {SortedSeq(S) : S \in {T \in SUBSET Names : Cardinality(T) <= MaxDeps}}

\* TaskDefinition (name, command, dependencies).  A command is known by its
\* exit code: "true" exits 0, "false" exits 1.
TaskDefinition(n, c, d) == [name |-> n, command |-> c, dependencies |-> d]

\* The names the next task of the list can carry: the i-th task is named i,
\* and the second task may repeat the first task's name (YAML does not
\* forbid it).
NextNames(defs) == IF Len(defs) = 1 THEN {1, 2} ELSE {Len(defs) + 1}

\* The commands the next task of the list can carry: the first task's command
\* may be a failing one.
NextCommands(defs) == IF Len(defs) = 0 THEN {"true", "false"} ELSE {"true"}

SeqRange(s) == {s[i] : i \in 1..Len(s)}

TaskNames(defs) == {defs[i].name : i \in 1..Len(defs)}


Min(S) == CHOOSE x \in S : \A y \in S : x <= y

\* ------------------------------------------------------------- exceptions
\* No name (Python's None where a name is expected).
NoName == 0

NoExc == [type |-> "none", msg |-> "", task |-> NoName, dep |-> NoName]

\* ValueError(f"Task '{task.name}' depends on unknown task '{dep}'")
UnknownDependency(t, d) ==
    [type |-> "ValueError", msg |-> "depends on unknown task", task |-> t, dep |-> d]

\* ValueError("Circular dependency detected in tasks")
CyclicDependency ==
    [type |-> "ValueError", msg |-> "Circular dependency detected in tasks",
     task |-> NoName, dep |-> NoName]

\* TypeError: Task.__init__() got an unexpected keyword argument
TaskTypeError ==
    [type |-> "TypeError", msg |-> "Task.__init__() got an unexpected keyword argument",
     task |-> NoName, dep |-> NoName]

\* --------------------------------------------------------------- planning
\* Variant of ValidateDependencies: no dependency name is checked.
ValidateNothing(defs) == NoExc

\* Orchestrator._validate_dependencies: the exception it raises, NoExc when it
\* returns.  Tasks are visited in list order and each task's dependencies in
\* list order; the first unknown name raises.
ValidateDependencies(defs) ==
    LET task_names == TaskNames(defs)
        Unknown(i) == {j \in 1..Len(defs[i].dependencies) :
                          defs[i].dependencies[j] \notin task_names}
        bad == {i \in 1..Len(defs) : Unknown(i) # {}}
    IN  IF bad = {} THEN NoExc
        ELSE LET i == Min(bad)
             IN  UnknownDependency(defs[i].name, defs[i].dependencies[Min(Unknown(i))])

\* Variant of AllDeps: any(...) in place of all(...).
AllDepsAny(task, completed) ==
    task.dependencies = <<>> \/ \E d \in SeqRange(task.dependencies) : d \in completed

\* all(dep in completed for dep in task.dependencies)
AllDeps(task, completed) ==
    \A d \in SeqRange(task.dependencies) : d \in completed

\* Variant of Ready: a round takes only the first ready task.
ReadyFirstOnly(defs, completed) ==
    LET r == SelectSeq([i \in 1..Len(defs) |-> i],
                       LAMBDA i : defs[i].name \notin completed
                                  /\ AllDeps(defs[i], completed))
    IN  IF r = <<>> THEN r ELSE <<r[1]>>

\* Variant of Ready: the ready tasks of a round are taken last first.
ReadyLastFirst(defs, completed) ==
    LET r == SelectSeq([i \in 1..Len(defs) |-> i],
                       LAMBDA i : defs[i].name \notin completed
                                  /\ AllDeps(defs[i], completed))
    IN  [k \in 1..Len(r) |-> r[Len(r) + 1 - k]]

\* One round of the resolver: the tasks (positions in defs, in list order) not
\* yet completed whose dependencies are all completed.
Ready(defs, completed) ==
    SelectSeq([i \in 1..Len(defs) |-> i],
              LAMBDA i : defs[i].name \notin completed /\ AllDeps(defs[i], completed))

\* Variant of NoReady: the loop is left and the batches built so far returned.
NoReadyKeepsBatches(bs) == [raised |-> FALSE, batches |-> bs]

\* What the resolver does when a round finds no ready task: it raises, and
\* the batches built so far are dropped with its frame.
NoReady(bs) == [raised |-> TRUE, batches |-> <<>>]

RECURSIVE ResolveLoop(_, _, _)
\* The while loop of _resolve_dependencies.
ResolveLoop(defs, completed, bs) ==
    IF ~(Cardinality(completed) < Len(defs))
    THEN [raised |-> FALSE, batches |-> bs]
    ELSE LET ready == Ready(defs, completed)
         IN  IF ready = <<>>
             THEN NoReady(bs)
             ELSE ResolveLoop(defs,
                              completed \cup {defs[ready[k]].name : k \in 1..Len(ready)},
                              Append(bs, ready))

\* Orchestrator._resolve_dependencies: [raised, batches].
ResolveDependencies(defs) == ResolveLoop(defs, {}, <<>>)

\* The fields of the dataclass Task, and the keyword arguments _create_plan
\* constructs it with.
TaskFields == {"id", "description", "deps", "inputs", "outputs", "worker_hint"}

CreatePlanTaskKwargs ==
    {"id", "description", "dependencies", "inputs", "outputs", "worker_hint"}

RunId == "R1"

RECURSIVE Flatten(_)
\* The tasks of all batches, batch after batch.
Flatten(bs) == IF bs = <<>> THEN <<>> ELSE Head(bs) \o Flatten(Tail(bs))

\* EventStoreV2.create_plan, which the store of this repository does not
\* define: it persists the plan (run id and task list snapshot).
CreatePlanRow(run_id, task_list) == [run_id |-> run_id, tasks |-> task_list]

\* Orchestrator._create_plan: [exc, plans].  A Task is constructed for every
\* task of every batch before the plan is stored.
CreatePlan(bs, stored) ==
    IF bs # <<>> /\ ~(CreatePlanTaskKwargs \subseteq TaskFields)
    THEN [exc |-> TaskTypeError, plans |-> stored]
    ELSE [exc |-> NoExc,
          plans |-> stored \cup {CreatePlanRow(RunId, Flatten(bs))}]


\* Variant of ExecuteOutcome: the plan is stored before the task set is
\* validated and resolved.
ExecutePlanFirst(defs, stored) ==
    LET p == CreatePlan(<<>>, stored)
        v == ValidateDependencies(defs)
        r == ResolveDependencies(defs)
        Out(c, e, b) ==
            [pc |-> IF e # NoExc THEN "raised"
                    ELSE IF b = <<>> THEN "returned" ELSE "executing",
             exc |-> e, calls |-> c, batches |-> b, plans |-> p.plans]
    IN  IF v # NoExc
        THEN Out(<<"_create_plan", "_validate_dependencies">>, v, <<>>)
        ELSE IF r.raised
        THEN Out(<<"_create_plan", "_validate_dependencies", "_resolve_dependencies">>,
                 CyclicDependency, <<>>)
        ELSE Out(<<"_create_plan", "_validate_dependencies", "_resolve_dependencies">>,
                 NoExc, r.batches)

\* Orchestrator.execute up to its first suspension point: validation,
\* resolution and plan creation run without yielding.  The batch loop that
\* follows is entered only when _create_plan returns with a non-empty batch
\* list.
ExecuteOutcome(defs, stored) ==
    LET v == ValidateDependencies(defs)
        r == ResolveDependencies(defs)
        p == CreatePlan(r.batches, stored)
        Out(c, e, b, pl) ==
            [pc |-> IF e # NoExc THEN "raised"
                    ELSE IF b = <<>> THEN "returned" ELSE "executing",
             exc |-> e, calls |-> c, batches |-> b, plans |-> pl]
    IN  IF v # NoExc
        THEN Out(<<"_validate_dependencies">>, v, <<>>, stored)
        ELSE IF r.raised
        THEN Out(<<"_validate_dependencies", "_resolve_dependencies">>,
                 CyclicDependency, <<>>, stored)
        ELSE Out(<<"_validate_dependencies", "_resolve_dependencies", "_create_plan">>,
                 p.exc, r.batches, p.plans)

\* ----------------------------------------------------------------- store
\* The clock counts ticks; a second has this many.
TicksPerSecond == 2

\* CURRENT_TIMESTAMP, datetime('now') and datetime(<text>) have a resolution
\* of one second: the second a tick falls in.
Second(t) == t \div TicksPerSecond

\* worker_id = f"W-{task_def.name}"
WorkerId(n) == <<"W", n>>

WorkerIds == {WorkerId(n) : n \in Names}

\* No row in table workers for a worker id.
NoRow == [state |-> "none"]

\* Python's None, for arguments and columns that hold text.
None == "None"

\* Python's None for the state argument.
NoState == [kind |-> "none", value |-> "None"]

\* Python's None for the progress argument and column.
NoProgress == -1

\* class WorkerState of the store: the values of its members.
WorkerStates == {"idle", "busy", "blocked", "error", "done", "dead"}

\* class EventType of the store: the values of its members.
StoreEventTypes ==
    {"start", "progress", "artifact", "error", "done", "merge_ready",
     "heartbeat", "blocked", "unblocked"}

\* class EventType of shared.models, the one worker.py and orchestrator.py
\* import: member name -> value.
ModelsEventType ==
    [START |-> "start", PROGRESS |-> "progress", ARTIFACT |-> "artifact",
     ERROR |-> "error", DONE |-> "done", MERGE_READY |-> "merge_ready"]

\* An argument that is a member of an Enum class, and one that is a plain str.
EnumMember(v) == [kind |-> "enum", value |-> v]

Str(v) == [kind |-> "str", value |-> v]

\* <argument>.value: only an Enum member has the attribute.
HasValueAttr(arg) == arg.kind = "enum"

AttributeError == [type |-> "AttributeError", msg |-> "", task |-> NoName, dep |-> NoName]

KeywordTypeError ==
    [type |-> "TypeError", msg |-> "got an unexpected keyword argument",
     task |-> NoName, dep |-> NoName]

IntegrityError == [type |-> "IntegrityError", msg |-> "", task |-> NoName, dep |-> NoName]

\* Variant of AppendEvent: every event is given the id 1.
AppendEventSameId(log, event_type, run_id, worker_id, task_id, payload, t) ==
    [exc |-> NoExc,
     events |-> Append(log, [id |-> 1, run_id |-> run_id, worker_id |-> worker_id,
                             event_type |-> event_type.value,
                             task_id |-> task_id, payload |-> payload,
                             timestamp |-> Second(t)])]

\* Variant of AppendEvent: the new event takes the place of the log.
AppendEventOverwriting(log, event_type, run_id, worker_id, task_id, payload, t) ==
    [exc |-> NoExc,
     events |-> <<[id |-> Len(log) + 1, run_id |-> run_id, worker_id |-> worker_id,
                   event_type |-> event_type.value,
                   task_id |-> task_id, payload |-> payload,
                   timestamp |-> Second(t)]>>]

\* EventStoreV2.append_event at instant t: [exc, events].  event_type.value
\* is evaluated inside the transaction; when it raises, the transaction is
\* rolled back and the exception re-raised.  Column timestamp takes its
\* default, CURRENT_TIMESTAMP: the UTC time in whole seconds.
AppendEvent(log, event_type, run_id, worker_id, task_id, payload, t) ==
    IF ~HasValueAttr(event_type)
    THEN [exc |-> AttributeError, events |-> log]
    ELSE [exc |-> NoExc,
          events |-> Append(log, [id |-> Len(log) + 1, run_id |-> run_id,
                                  worker_id |-> worker_id,
                                  event_type |-> event_type.value,
                                  task_id |-> task_id, payload |-> payload,
                                  timestamp |-> Second(t)])]

\* Variant of UpdateExistingRow: a progress that is not given is reset to 0.
UpdateExistingRowResetting(row, state, progress, task_id, message, t) ==
    [row EXCEPT
       !.state = IF state # NoState THEN state.value ELSE @,
       !.progress = IF progress # NoProgress THEN progress ELSE 0,
       !.task_id = IF task_id # NoName THEN task_id ELSE @,
       !.last_message = IF message # None THEN message ELSE @,
       !.last_heartbeat = Second(t),
       !.updated = t]

\* EventStoreV2.update_worker_status, the UPDATE of an existing row: only
\* the columns whose argument was given change, and last_heartbeat is set
\* to CURRENT_TIMESTAMP, the UTC time in whole seconds.  updated is the
\* instant of the call on the model's clock; the store does not hold it.
UpdateExistingRow(row, state, progress, task_id, message, t) ==
    [row EXCEPT
       !.state = IF state # NoState THEN state.value ELSE @,
       !.progress = IF progress # NoProgress THEN progress ELSE @,
       !.task_id = IF task_id # NoName THEN task_id ELSE @,
       !.last_message = IF message # None THEN message ELSE @,
       !.last_heartbeat = Second(t),
       !.updated = t]

\* EventStoreV2.update_worker_status, the INSERT of a new row.
InsertRow(run_id, state, progress, task_id, message, t) ==
    [run_id |-> run_id,
     state |-> IF state # NoState THEN state.value ELSE "idle",
     progress |-> IF progress # NoProgress THEN progress ELSE 0,
     task_id |-> task_id,
     last_message |-> message,
     started_at |-> Second(t),
     last_heartbeat |-> Second(t),
     updated |-> t]

\* EventStoreV2.update_worker_status at instant t: [exc, workers].  state is
\* None or an argument whose .value is read.
UpdateWorkerStatus(rows, worker_id, run_id, state, progress, task_id, message, t) ==
    IF state # NoState /\ ~HasValueAttr(state)
    THEN [exc |-> AttributeError, workers |-> rows]
    ELSE [exc |-> NoExc,
          workers |->
            [rows EXCEPT ![worker_id] =
               IF rows[worker_id] # NoRow
               THEN UpdateExistingRow(rows[worker_id], state, progress, task_id,
                                      message, t)
               ELSE InsertRow(run_id, state, progress, task_id, message, t)]]

\* EventStoreV2.create_worker, which the store of this repository does not
\* define: it creates the worker's record, in state idle; the primary key
\* admits one row per worker id.
CreateWorker(rows, worker_id, run_id, task_id, t) ==
    IF rows[worker_id] # NoRow
    THEN [exc |-> IntegrityError, workers |-> rows]
    ELSE [exc |-> NoExc,
          workers |-> [rows EXCEPT ![worker_id] =
                          InsertRow(run_id, NoState, NoProgress, task_id, None, t)]]

\* ------------------------------------------------------- store: queries
\* The payload of an event is known by the value under its key "path"; None
\* when the payload is None or has no such key.
\* json_extract(e.payload, '$.path')
JsonExtractPath(e) == e.payload

\* A row of table tasks.
TaskRow(id, state) == [id |-> id, state |-> state]

\* Variant of GetReadyArtifacts: the join with table tasks is dropped.
GetArtifactsOfAnyTask(log, task_rows, run_id) ==
    {JsonExtractPath(log[i]) :
        i \in {k \in 1..Len(log) :
                 /\ log[k].event_type = "artifact"
                 /\ log[k].run_id = run_id
                 /\ JsonExtractPath(log[k]) # None}}

\* EventStoreV2.get_ready_artifacts: the distinct paths of the artifact
\* events of the run that join a row of table tasks in state 'completed'.
GetReadyArtifacts(log, task_rows, run_id) ==
    {JsonExtractPath(log[i]) :
        i \in {k \in 1..Len(log) :
                 /\ log[k].event_type = "artifact"
                 /\ \E t \in task_rows : t.id = log[k].task_id /\ t.state = "completed"
                 /\ log[k].run_id = run_id
                 /\ JsonExtractPath(log[k]) # None}}

\* EventStoreV2.get_all_workers: the rows of a run, as (id, row) pairs.
GetAllWorkers(rows, run_id) ==
    {[id |-> w, row |-> rows[w]] :
        w \in {x \in DOMAIN rows : rows[x] # NoRow /\ rows[x].run_id = run_id}}

\* get_events' default for limit.
DefaultLimit == 100

\* ORDER BY timestamp DESC, id DESC: row a comes before row b.
OrderedBefore(a, b) ==
    \/ a.timestamp > b.timestamp
    \/ a.timestamp = b.timestamp /\ a.id > b.id

\* EventStoreV2.get_events(run_id, worker_id, limit=, offset=): the rows
\* SELECT * FROM events WHERE run_id = ? AND worker_id = ?
\*   ORDER BY timestamp DESC, id DESC LIMIT ? OFFSET ?
GetEvents(log, run_id, worker_id, limit, offset) ==
    LET S == {e \in SeqRange(log) : e.run_id = run_id /\ e.worker_id = worker_id}
        sorted == [k \in 1..Cardinality(S) |->
                      CHOOSE e \in S :
                          Cardinality({x \in S : OrderedBefore(x, e)}) = k - 1]
        last == IF offset + limit < Len(sorted) THEN offset + limit ELSE Len(sorted)
    IN  SubSeq(sorted, offset + 1, last)

\* Variant of DetectDeadWorkers: the state of a worker is not looked at.
DetectSilentWorkers(rows, t, timeout_seconds) ==
    {w \in DOMAIN rows :
        /\ rows[w] # NoRow
        /\ rows[w].last_heartbeat < Second(t) - timeout_seconds}

\* EventStoreV2.detect_dead_workers at instant t: the ids of the rows
\* WHERE state IN ('busy', 'blocked')
\*   AND datetime(last_heartbeat) < datetime('now', '-<timeout> seconds');
\* both sides are UTC times in whole seconds.
DetectDeadWorkers(rows, t, timeout_seconds) ==
    {w \in DOMAIN rows :
        /\ rows[w] # NoRow
        /\ rows[w].state \in {"busy", "blocked"}
        /\ rows[w].last_heartbeat < Second(t) - timeout_seconds}

\* EventStoreV2.get_workers, which the hooks call and the store of this
\* repository does not define: the workers of a run.
GetWorkers(rows, run_id) == GetAllWorkers(rows, run_id)

\* -------------------------------------------------------- store: blocks
\* datetime.now() is the local time of the calling process: UTC plus the
\* zone's offset.  An offset is longer than any block's duration.
UtcOffsetSeconds == MaxDuration + 2

UtcOffsets == {-UtcOffsetSeconds, 0, UtcOffsetSeconds}

LocalNow(t, offset) == t + offset * TicksPerSecond

\* No row of table blocks.
NoBlock == [id |-> 0]

\* The rows of a (worker, hook_event) pair.
BlocksOfPair(bs, worker_id, hook_event) ==
    {i \in 1..Len(bs) : bs[i].worker_id = worker_id /\ bs[i].hook_event = hook_event}

\* SELECT retry_count FROM blocks WHERE worker_id = ? AND hook_event = ?
\* ORDER BY created_at DESC LIMIT 1: the rows the query can return.  SQL
\* leaves the order of rows with equal created_at open.
LatestCreated(bs, worker_id, hook_event) ==
    LET P == BlocksOfPair(bs, worker_id, hook_event)
    IN  IF P = {} THEN {NoBlock}
        ELSE {bs[i] : i \in {k \in P : \A j \in P : bs[j].created_at <= bs[k].created_at}}

\* retry_count = (row['retry_count'] + 1) if row else 0
NextRetryCount(row) == IF row # NoBlock THEN row.retry_count + 1 ELSE 0

\* EventStoreV2.create_block, given the row its query returned:
\* [accepted, blocks, seq].  expiry is the instant the lease ends on the
\* store's clock, which no column holds.
CreateBlock(bs, seq, t, offset, row, worker_id, hook_event, duration, max_retries) ==
    LET retry_count == NextRetryCount(row)
    IN  IF retry_count >= max_retries
        THEN [accepted |-> FALSE, blocks |-> bs, seq |-> seq]
        ELSE [accepted |-> TRUE,
              blocks |-> Append(bs,
                 [id |-> seq + 1, worker_id |-> worker_id, hook_event |-> hook_event,
                  created_at |-> Second(t),
                  expires_at |-> LocalNow(t, offset) + duration * TicksPerSecond,
                  retry_count |-> retry_count, max_retries |-> max_retries,
                  expiry |-> t + duration * TicksPerSecond]),
              seq |-> seq + 1]

\* DELETE FROM blocks WHERE datetime(expires_at) < datetime('now')
PurgeExpired(bs, t) == SelectSeq(bs, LAMBDA b : ~(Second(b.expires_at) < Second(t)))

\* SELECT * FROM blocks WHERE datetime(expires_at) > datetime('now')
\* [AND hook_event = ?]: the ids of the rows.
SelectActive(bs, t, hook_event) ==
    {bs[i].id : i \in {k \in 1..Len(bs) :
                         /\ Second(bs[k].expires_at) > Second(t)
                         /\ (hook_event # None => bs[k].hook_event = hook_event)}}

\* EventStoreV2.get_active_blocks: [blocks, active].
GetActiveBlocks(bs, t, hook_event) ==
    LET kept == PurgeExpired(bs, t)
    IN  [blocks |-> kept, active |-> SelectActive(kept, t, hook_event)]

\* ----------------------------------------------------------- gate hooks
\* The hook events the two gates run on.
HookEvents == {"PreToolUse", "Stop"}

TerminalStates == {"done", "error", "dead"}

\* sqlite3.ProgrammingError: a parameter of a type that cannot be bound.
ProgrammingError ==
    [type |-> "ProgrammingError", msg |-> "Error binding parameter",
     task |-> NoName, dep |-> NoName]

\* store.get_ready_artifacts([worker['task_id']]) of pre_tool_use.py: the
\* run_id parameter is bound to a list, which sqlite3 refuses.
GetReadyArtifactsOfList(log, task_rows) == [exc |-> ProgrammingError, paths |-> {}]

\* check_workers_ready of pre_tool_use.py: [ready, artifacts].  Any
\* exception is caught and reported as ready.  A database file that does not
\* exist holds no workers and gives the same answer as an empty table.
CheckWorkersReady(rows, log, task_rows, run_id) ==
    LET ws == GetWorkers(rows, run_id)
        done_count == Cardinality({w \in ws : w.row.state = "done"})
        total_count == Cardinality(ws)
        a == GetReadyArtifactsOfList(log, task_rows)
    IN  IF ws = {} THEN [ready |-> TRUE, artifacts |-> {}]
        ELSE IF done_count < total_count THEN [ready |-> FALSE, artifacts |-> {}]
        ELSE IF a.exc # NoExc THEN [ready |-> TRUE, artifacts |-> {}]
        ELSE [ready |-> TRUE, artifacts |-> a.paths]

\* check_workers_complete of stop.py: all_complete.
CheckWorkersComplete(rows, run_id) ==
    LET ws == GetWorkers(rows, run_id)
        active_count ==
            Cardinality({w \in ws : w.row.state \in {"busy", "blocked", "idle"}})
    IN  IF ws = {} THEN TRUE ELSE ~(active_count > 0)

\* The exit status of a hook process: 0 lets the caller proceed, 2 blocks.
ExitProceed == 0

ExitBlock == 2

\* main of pre_tool_use.py: [checked, exit, artifacts].  The workers are
\* looked at only for a tool call that detect_merge_operation takes for a
\* merge.
PreToolUseMain(is_merge, rows, log, task_rows, run_id) ==
    LET c == CheckWorkersReady(rows, log, task_rows, run_id)
    IN  IF ~is_merge THEN [checked |-> FALSE, exit |-> ExitProceed, artifacts |-> {}]
        ELSE IF ~c.ready THEN [checked |-> TRUE, exit |-> ExitBlock, artifacts |-> {}]
        ELSE [checked |-> TRUE, exit |-> ExitProceed, artifacts |-> c.artifacts]

\* main of stop.py: [checked, exit, artifacts].
StopMain(rows, run_id) ==
    IF ~CheckWorkersComplete(rows, run_id)
    THEN [checked |-> TRUE, exit |-> ExitBlock, artifacts |-> {}]
    ELSE [checked |-> TRUE, exit |-> ExitProceed, artifacts |-> {}]

\* No gate hook has run yet.
NoGate == [hook |-> "none", checked |-> FALSE, exit |-> ExitProceed, artifacts |-> {}]

\* create_block's default for max_retries.
DefaultMaxRetries == 3

\* No store query has been made yet, and the record of one.
NoQuery ==
    [op |-> "none", worker |-> WorkerId(NoName), hook_event |-> None,
     max_retries |-> 0, accepted |-> FALSE,
     active |-> {}, paths |-> {}, timeout |-> 0, dead |-> {},
     fault |-> "none", failed |-> FALSE, raised |-> "none", summary |-> {},
     limit |-> 0, offset |-> 0, rows |-> <<>>]

\* ---------------------------------------------------------------- Worker
\* The task a worker id is bound to.
TaskOf(w) == w[2]

\* The parameters of EventStoreV2.update_worker_status, those without a
\* default, and the keyword arguments worker.py calls it with.
UpdateWorkerStatusParams ==
    {"worker_id", "run_id", "state", "progress", "task_id", "message"}

UpdateWorkerStatusRequired == {"worker_id", "run_id"}

WorkerStatusKwargs == {"worker_id", "state", "progress", "last_message"}

\* The store and process state a Worker method runs on, with the exception
\* the method has raised so far.
Running(rows, log, ps, t) ==
    [exc |-> NoExc, workers |-> rows, events |-> log, procs |-> ps, now |-> t]

\* Variant of WorkerAppendEvent: a failure of the store call is dropped.
WorkerAppendEventSwallowing(st, w, member, payload) ==
    IF member \notin DOMAIN ModelsEventType
    THEN st
    ELSE LET a == AppendEvent(st.events, Str(ModelsEventType[member]), RunId, w,
                              TaskOf(w), payload, st.now)
         IN  [st EXCEPT !.events = a.events]

\* self.store.append_event(..., event_type=EventType.<member>.value, ...) of
\* worker.py: the member is looked up in shared.models.EventType and its
\* value, a str, is passed on.
WorkerAppendEvent(st, w, member, payload) ==
    IF member \notin DOMAIN ModelsEventType
    THEN [st EXCEPT !.exc = AttributeError]
    ELSE LET a == AppendEvent(st.events, Str(ModelsEventType[member]), RunId, w,
                              TaskOf(w), payload, st.now)
         IN  [st EXCEPT !.exc = a.exc, !.events = a.events]

\* self.store.update_worker_status(worker_id=, state=, progress=,
\* last_message=) of worker.py.
WorkerUpdateStatus(st, w, state, progress, message) ==
    IF ~(/\ WorkerStatusKwargs \subseteq UpdateWorkerStatusParams
         /\ UpdateWorkerStatusRequired \subseteq WorkerStatusKwargs)
    THEN [st EXCEPT !.exc = KeywordTypeError]
    ELSE LET u == UpdateWorkerStatus(st.workers, w, RunId, Str(state), progress,
                                     NoName, message, st.now)
         IN  [st EXCEPT !.exc = u.exc, !.workers = u.workers]

\* An event is appended, then the status row is updated.
ReportAndUpdate(st, w, member, payload, state, progress, message) ==
    LET a == WorkerAppendEvent(st, w, member, payload)
    IN  IF a.exc # NoExc THEN a
        ELSE WorkerUpdateStatus(a, w, state, progress, message)

\* Worker.send_heartbeat
SendHeartbeat(st, w) ==
    ReportAndUpdate(st, w, "HEARTBEAT", "", "busy", NoProgress, None)

\* Worker.update_progress
UpdateProgress(st, w, percent, message) ==
    ReportAndUpdate(st, w, "PROGRESS", message, "busy", percent, message)

\* Worker.report_artifact
ReportArtifact(st, w, path) == WorkerAppendEvent(st, w, "ARTIFACT", path)

\* Worker.report_error
ReportError(st, w, error) ==
    ReportAndUpdate(st, w, "ERROR", error, "error", 0, error)

\* Worker.report_done
ReportDone(st, w) ==
    ReportAndUpdate(st, w, "DONE", "success", "done", 100, "Completed successfully")

\* The commands a worker is given: "true" exits 0, "false" exits 1 and
\* "sleep" outlasts the timeout.
Commands == {"true", "false", "sleep"}

\* Worker.execute_command: the state it leaves, with exc the exception that
\* leaves the method.  Inside the try block any exception goes to the
\* handler, which reports an error; an exception raised by a handler leaves
\* the method.
ExecuteCommand(st, w, command) ==
    LET Handler(s) == ReportError([s EXCEPT !.exc = NoExc], w, "Exception")
        s1 == WorkerAppendEvent(st, w, "START", command)
        s2 == UpdateProgress(s1, w, 0, "Starting...")
        s3 == UpdateProgress(s2, w, 10, "Executing command...")
        s4 == [s3 EXCEPT !.procs = @ \cup {w}]
        s5 == UpdateProgress(s4, w, 90, "Command completed, processing output...")
        s6 == ReportArtifact(s5, w, "output.txt")
        s7 == IF command = "true" THEN ReportDone(s6, w)
              ELSE ReportError(s6, w, "Command exited with code 1")
    IN  IF s1.exc # NoExc THEN s1
        ELSE IF s2.exc # NoExc THEN s2
        ELSE IF s3.exc # NoExc THEN Handler(s3)
        ELSE IF command = "sleep" THEN ReportError(s4, w, "Command timed out")
        ELSE IF s5.exc # NoExc THEN Handler(s5)
        ELSE IF s6.exc # NoExc THEN Handler(s6)
        ELSE IF s7.exc # NoExc THEN Handler(s7)
        ELSE s7

\* No Worker method has been called yet.
NoCall ==
    [op |-> "none", worker |-> WorkerId(NoName), command |-> None, raised |-> "none"]

Call(op, w, command, st) ==
    [op |-> op, worker |-> w, command |-> command, raised |-> st.exc.type]

\* ------------------------------------------------------- the planning run
Init ==
    /\ task_defs = <<>>
    /\ pc = "loading"
    /\ exc = NoExc
    /\ calls = <<>>
    /\ batches = <<>>
    /\ all_results = <<>>
    /\ plans = {}
    /\ workers = [w \in WorkerIds |-> NoRow]
    /\ events = <<>>
    /\ procs = {}
    /\ worker_objs = {}
    /\ last_call = NoCall
    /\ tasks = {}
    /\ blocks = <<>>
    /\ block_seq = 0
    /\ now = 0
    /\ last_query = NoQuery
    /\ last_gate = NoGate
    /\ blocked_checks = [h \in HookEvents |-> 0]
    /\ events_file = <<>>

\* One iteration of the loop of Orchestrator._load_tasks: the next task of
\* the tasks file is appended.
LoadTask ==
    /\ pc = "loading"
    /\ Len(task_defs) < MaxTasks
    /\ \E n \in NextNames(task_defs), c \in NextCommands(task_defs), d \in DepLists :
          task_defs' = Append(task_defs, TaskDefinition(n, c, d))
    /\ UNCHANGED <<pc, exc, calls, batches, all_results, plans, workers,
                   events, procs, worker_objs, last_call>>
    /\ UNCHANGED store_ext

\* Orchestrator.execute, called once the task list is loaded
Execute ==
    /\ pc = "loading"
    /\ LET o == ExecuteOutcome(task_defs, plans)
       IN  /\ pc' = o.pc
           /\ exc' = o.exc
           /\ calls' = o.calls
           /\ batches' = o.batches
           /\ plans' = o.plans
    /\ UNCHANGED <<task_defs, all_results, workers, events, procs, worker_objs,
                   last_call>>
    /\ UNCHANGED store_ext

Next == LoadTask \/ Execute

Spec == Init /\ [][Next]_vars

\* ------------------------------------------ the store and the Worker class
\* The workers the store operations and the Worker methods are called for.
StoreWorkers == {WorkerId(1), WorkerId(2)}

\* The arguments a caller of update_worker_status passes.
StateArgs == {NoState} \cup {EnumMember(v) : v \in WorkerStates}

ProgressArgs == {NoProgress, 0, 100}

MessageArgs == {None, "m"}

\* EventStoreV2.update_worker_status called on the store, with arguments
\* drawn from the given sets
UpdateWorkerStatusCalled(state_args, progress_args, message_args) ==
    /\ \E w \in StoreWorkers, state \in state_args, progress \in progress_args,
          message \in message_args :
          workers' = UpdateWorkerStatus(workers, w, RunId, state, progress,
                                        NoName, message, now).workers
    /\ UNCHANGED <<task_defs, pc, exc, calls, batches, all_results, plans,
                   events, procs, worker_objs, last_call>>
    /\ UNCHANGED store_ext

StoreUpdateWorkerStatus == UpdateWorkerStatusCalled(StateArgs, ProgressArgs, MessageArgs)

\* A Worker method has run from state st to state out.
WorkerMethodRan(op, w, command, out) ==
    /\ workers' = out.workers
    /\ events' = out.events
    /\ procs' = out.procs
    /\ last_call' = Call(op, w, command, out)
    /\ UNCHANGED <<task_defs, pc, exc, calls, batches, all_results, plans>>
    /\ UNCHANGED store_ext

\* Worker.__init__: the store is opened and the worker's record created.
WorkerInit ==
    \E w \in StoreWorkers \ worker_objs :
        LET c == CreateWorker(workers, w, RunId, TaskOf(w), now)
        IN  /\ WorkerMethodRan("__init__", w, None,
                               [exc |-> c.exc, workers |-> c.workers,
                                events |-> events, procs |-> procs, now |-> now])
            /\ worker_objs' = IF c.exc = NoExc THEN worker_objs \cup {w}
                              ELSE worker_objs

\* Worker.send_heartbeat
WorkerSendHeartbeat ==
    /\ \E w \in worker_objs :
          WorkerMethodRan("send_heartbeat", w, None,
                          SendHeartbeat(Running(workers, events, procs, now), w))
    /\ UNCHANGED worker_objs

\* Worker.update_progress
WorkerUpdateProgress ==
    /\ \E w \in worker_objs, percent \in ProgressArgs \ {NoProgress} :
          WorkerMethodRan("update_progress", w, None,
                          UpdateProgress(Running(workers, events, procs, now), w, percent, "m"))
    /\ UNCHANGED worker_objs

\* Worker.report_artifact
WorkerReportArtifact ==
    /\ \E w \in worker_objs :
          WorkerMethodRan("report_artifact", w, None,
                          ReportArtifact(Running(workers, events, procs, now), w, "output.txt"))
    /\ UNCHANGED worker_objs

\* Worker.report_error
WorkerReportError ==
    /\ \E w \in worker_objs :
          WorkerMethodRan("report_error", w, None,
                          ReportError(Running(workers, events, procs, now), w, "m"))
    /\ UNCHANGED worker_objs

\* Worker.report_done
WorkerReportDone ==
    /\ \E w \in worker_objs :
          WorkerMethodRan("report_done", w, None,
                          ReportDone(Running(workers, events, procs, now), w))
    /\ UNCHANGED worker_objs

\* Worker.execute_command
WorkerExecuteCommand ==
    /\ \E w \in worker_objs, command \in Commands :
          WorkerMethodRan("execute_command", w, command,
                          ExecuteCommand(Running(workers, events, procs, now), w, command))
    /\ UNCHANGED worker_objs

NextStore ==
    \/ StoreUpdateWorkerStatus
    \/ WorkerInit
    \/ WorkerSendHeartbeat
    \/ WorkerUpdateProgress
    \/ WorkerReportArtifact
    \/ WorkerReportError
    \/ WorkerReportDone
    \/ WorkerExecuteCommand

SpecStore == Init /\ [][NextStore]_vars

\* ------------------------------------------------- the log and its queries
\* The arguments a caller of append_event passes: a member of the store's
\* EventType, and the path entry of the payload.
LogEventArgs == {EnumMember("artifact"), EnumMember("done")}

\* The path a worker's artifact event carries.
ArtifactPath(w) == IF w = WorkerId(1) THEN "a.txt" ELSE "b.txt"

\* EventStoreV2.append_event called on the store
StoreAppendEvent ==
    /\ Len(events) < MaxEvents
    /\ \E w \in StoreWorkers, event_type \in LogEventArgs :
          events' = AppendEvent(events, event_type, RunId, w, TaskOf(w),
                                IF event_type.value = "artifact" THEN ArtifactPath(w)
                                ELSE None, now).events
    /\ UNCHANGED <<task_defs, pc, exc, calls, batches, all_results, plans, workers,
                   procs, worker_objs, last_call>>
    /\ UNCHANGED store_ext

\* EventStoreV2.get_ready_artifacts called on the store
StoreGetReadyArtifacts ==
    /\ last_query' = [NoQuery EXCEPT !.op = "get_ready_artifacts",
                                     !.paths = GetReadyArtifacts(events, tasks, RunId)]
    /\ UNCHANGED <<task_defs, pc, exc, calls, batches, all_results, plans, workers,
                   events, procs, worker_objs, last_call, tasks, blocks, block_seq,
                   now, last_gate, blocked_checks, events_file>>

NextLog ==
    \/ StoreAppendEvent
    \/ StoreUpdateWorkerStatus
    \/ StoreGetReadyArtifacts

SpecLog == Init /\ [][NextLog]_vars

\* ------------------------------------------------------------- the gates
\* A gate hook has run and its process exited.
GateRan(hook, out) ==
    /\ last_gate' = [hook |-> hook, checked |-> out.checked, exit |-> out.exit,
                     artifacts |-> out.artifacts]
    /\ blocked_checks' =
          [blocked_checks EXCEPT ![hook] =
              IF out.exit = ExitBlock
              THEN (IF @ <= DefaultMaxRetries THEN @ + 1 ELSE @)
              ELSE 0]
    /\ UNCHANGED <<task_defs, pc, exc, calls, batches, all_results, plans, workers,
                   events, procs, worker_objs, last_call, tasks, blocks, block_seq,
                   now, last_query, events_file>>

\* pre_tool_use.py run before a tool call
PreToolUseHook ==
    \E is_merge \in BOOLEAN :
        GateRan("PreToolUse", PreToolUseMain(is_merge, workers, events, tasks, RunId))

\* stop.py run before the session ends
StopHook == GateRan("Stop", StopMain(workers, RunId))

NextGate ==
    \/ StoreUpdateWorkerStatus
    \/ PreToolUseHook
    \/ StopHook

SpecGate == Init /\ [][NextGate]_vars

\* ------------------------------------------------------------ the blocks
\* The worker that blocks are created for.
BlockWorker == WorkerId(1)

\* Time passes.
Tick ==
    /\ now < MaxTime
    /\ now' = now + 1
    /\ UNCHANGED <<task_defs, pc, exc, calls, batches, all_results, plans, workers,
                   events, procs, worker_objs, last_call, tasks, blocks, block_seq,
                   last_query, last_gate, blocked_checks, events_file>>

\* EventStoreV2.create_block called on the store, with arguments drawn
\* from the given sets, by a process in one of the given zones
CreateBlockCalled(hook_events, durations, retry_limits, offsets) ==
    /\ block_seq < MaxBlocks
    /\ \E hook_event \in hook_events, duration \in durations,
          max_retries \in retry_limits, offset \in offsets :
        \E row \in LatestCreated(blocks, BlockWorker, hook_event) :
          LET c == CreateBlock(blocks, block_seq, now, offset, row, BlockWorker,
                               hook_event, duration, max_retries)
          IN  /\ blocks' = c.blocks
              /\ block_seq' = c.seq
              /\ last_query' =
                    [NoQuery EXCEPT !.op = "create_block", !.worker = BlockWorker,
                                    !.hook_event = hook_event,
                                    !.max_retries = max_retries,
                                    !.accepted = c.accepted]
    /\ UNCHANGED <<task_defs, pc, exc, calls, batches, all_results, plans, workers,
                   events, procs, worker_objs, last_call, tasks, now, last_gate,
                   blocked_checks, events_file>>

\* EventStoreV2.create_block called on the store, by a process in some zone
StoreCreateBlock ==
    CreateBlockCalled(HookEvents, 1..MaxDuration, 1..MaxRetries, UtcOffsets)

\* EventStoreV2.get_active_blocks called on the store
StoreGetActiveBlocks ==
    /\ \E hook_event \in {None} \cup HookEvents :
          LET g == GetActiveBlocks(blocks, now, hook_event)
          IN  /\ blocks' = g.blocks
              /\ last_query' =
                    [NoQuery EXCEPT !.op = "get_active_blocks",
                                    !.hook_event = hook_event, !.active = g.active]
    /\ UNCHANGED <<task_defs, pc, exc, calls, batches, all_results, plans, workers,
                   events, procs, worker_objs, last_call, tasks, block_seq, now,
                   last_gate, blocked_checks, events_file>>

NextBlocks ==
    \/ Tick
    \/ StoreCreateBlock
    \/ StoreGetActiveBlocks

SpecBlocks == Init /\ [][NextBlocks]_vars

\* ----------------------------------------------------------- the retries
\* EventStoreV2.create_block called again and again for one pair with the
\* same max_retries, by a process whose zone is UTC
StoreRetryBlock == CreateBlockCalled({"Stop"}, {MaxDuration}, {MaxRetries}, {0})

NextRetries ==
    \/ Tick
    \/ StoreRetryBlock
    \/ StoreGetActiveBlocks

SpecRetries == Init /\ [][NextRetries]_vars

\* ------------------------------------------------------ the status upsert
\* The arguments of status updates made while time passes.
UpsertStateArgs == {NoState, EnumMember("busy"), EnumMember("done")}

UpsertProgressArgs == {NoProgress, 100}

\* EventStoreV2.update_worker_status called on the store as time passes
StoreUpsert == UpdateWorkerStatusCalled(UpsertStateArgs, UpsertProgressArgs, MessageArgs)

NextUpsert ==
    \/ Tick
    \/ StoreUpsert

SpecUpsert == Init /\ [][NextUpsert]_vars

\* -------------------------------------------------------- the heartbeats
\* The states a watched worker's status updates pass.
HeartbeatStateArgs ==
    {NoState, EnumMember("busy"), EnumMember("blocked"), EnumMember("done")}

\* The timeouts detect_dead_workers is called with, in seconds.
Timeouts == 0..MaxTimeout

\* EventStoreV2.update_worker_status called for a watched worker
StoreHeartbeatUpdate == UpdateWorkerStatusCalled(HeartbeatStateArgs, {NoProgress}, {None})

\* EventStoreV2.detect_dead_workers called on the store
StoreDetectDeadWorkers ==
    /\ \E timeout_seconds \in Timeouts :
          last_query' = [NoQuery EXCEPT !.op = "detect_dead_workers",
                                        !.timeout = timeout_seconds,
                                        !.dead = DetectDeadWorkers(workers, now,
                                                                   timeout_seconds)]
    /\ UNCHANGED <<task_defs, pc, exc, calls, batches, all_results, plans, workers,
                   events, procs, worker_objs, last_call, tasks, blocks, block_seq,
                   now, last_gate, blocked_checks, events_file>>

NextHeartbeat ==
    \/ Tick
    \/ StoreHeartbeatUpdate
    \/ StoreDetectDeadWorkers

SpecHeartbeat == Init /\ [][NextHeartbeat]_vars

\* ------------------------------------------------------- the transactions
\* sqlite3.OperationalError: the database is locked or cannot be written.
OperationalError ==
    [type |-> "OperationalError", msg |-> "", task |-> NoName, dep |-> NoName]

\* Where the database fails during a call: nowhere, at the statement that
\* writes, or at COMMIT.
Faults == {"none", "statement", "commit"}

\* The tables of the store a transaction reads and writes.
Tables(rows, log, bs, seq) ==
    [workers |-> rows, events |-> log, blocks |-> bs, block_seq |-> seq]

\* The statements inside `with self.transaction()`: [exc, tables].  out is
\* what the statements do on a database that works; a write statement that
\* fails raises and writes nothing.
Statements(before, out, fault) ==
    IF out.exc = NoExc /\ out.tables # before /\ fault = "statement"
    THEN [exc |-> OperationalError, tables |-> before]
    ELSE out

\* Variant of Transaction: what was written stays when COMMIT fails.
TransactionKeepingWrites(before, body, fault) ==
    IF body.exc # NoExc THEN [exc |-> body.exc, tables |-> body.tables]
    ELSE IF fault = "commit" THEN [exc |-> OperationalError, tables |-> body.tables]
    ELSE [exc |-> NoExc, tables |-> body.tables]

\* EventStoreV2.transaction: BEGIN, the body, COMMIT; on an exception of
\* the body or of COMMIT, ROLLBACK and the exception is raised again.
Transaction(before, body, fault) ==
    IF body.exc # NoExc THEN [exc |-> body.exc, tables |-> before]
    ELSE IF fault = "commit" THEN [exc |-> OperationalError, tables |-> before]
    ELSE [exc |-> NoExc, tables |-> body.tables]

\* A store call has returned or raised: the tables are those the
\* transaction left.
StoreCallReturned(op, fault, body, tx) ==
    /\ workers' = tx.tables.workers
    /\ events' = tx.tables.events
    /\ blocks' = tx.tables.blocks
    /\ block_seq' = tx.tables.block_seq
    /\ last_query' = [NoQuery EXCEPT !.op = op, !.fault = fault,
                                     !.failed = (body.exc # NoExc \/ fault = "commit"),
                                     !.raised = tx.exc.type]
    /\ UNCHANGED <<task_defs, pc, exc, calls, batches, all_results, plans, procs,
                   worker_objs, last_call, tasks, now, last_gate, blocked_checks,
                   events_file>>

\* The arguments of the calls made on a database that may fail.
FaultyStateArgs == {NoState, EnumMember("busy"), Str("busy")}

FaultyEventArgs == {EnumMember("done"), Str("done")}

\* EventStoreV2.update_worker_status on a database that may fail
UpdateWorkerStatusCall ==
    \E w \in StoreWorkers, state \in FaultyStateArgs, fault \in Faults :
        LET before == Tables(workers, events, blocks, block_seq)
            u == UpdateWorkerStatus(workers, w, RunId, state, 100, NoName, None, now)
            body == Statements(before,
                               [exc |-> u.exc,
                                tables |-> [before EXCEPT !.workers = u.workers]],
                               fault)
        IN  StoreCallReturned("update_worker_status", fault, body,
                              Transaction(before, body, fault))

\* EventStoreV2.append_event on a database that may fail
AppendEventCall ==
    /\ Len(events) < MaxEvents
    /\ \E event_type \in FaultyEventArgs, fault \in Faults :
        LET before == Tables(workers, events, blocks, block_seq)
            a == AppendEvent(events, event_type, RunId, BlockWorker,
                             TaskOf(BlockWorker), None, now)
            body == Statements(before,
                               [exc |-> a.exc,
                                tables |-> [before EXCEPT !.events = a.events]],
                               fault)
        IN  StoreCallReturned("append_event", fault, body,
                              Transaction(before, body, fault))

\* EventStoreV2.create_block on a database that may fail
CreateBlockCall ==
    /\ block_seq < MaxBlocks
    /\ \E max_retries \in 1..MaxRetries, fault \in Faults :
        \E row \in LatestCreated(blocks, BlockWorker, "Stop") :
          LET before == Tables(workers, events, blocks, block_seq)
              c == CreateBlock(blocks, block_seq, now, 0, row, BlockWorker, "Stop",
                               MaxDuration, max_retries)
              body == Statements(before,
                                 [exc |-> NoExc,
                                  tables |-> [before EXCEPT !.blocks = c.blocks,
                                                            !.block_seq = c.seq]],
                                 fault)
          IN  StoreCallReturned("create_block", fault, body,
                                Transaction(before, body, fault))

NextTransactions ==
    \/ UpdateWorkerStatusCall
    \/ AppendEventCall
    \/ CreateBlockCall

SpecTransactions == Init /\ [][NextTransactions]_vars

\* ------------------------------------------- the gates on a failing store
\* The condition of the run's database when a gate opens it: in order, not
\* there, or failing (not a database file, locked).
DatabaseConditions == {"ok", "missing", "failing"}

\* Variant of CheckWorkersReadyOn: an exception of the store blocks the
\* caller.
CheckWorkersReadyFailClosed(db, rows, log, task_rows, run_id) ==
    LET ws == GetWorkers(rows, run_id)
        c == CheckWorkersReady(rows, log, task_rows, run_id)
        a == GetReadyArtifactsOfList(log, task_rows)
        all_done == ws # {} /\ \A w \in ws : w.row.state = "done"
    IN  IF db = "missing"
        THEN [ready |-> TRUE, artifacts |-> {}, raised |-> NoExc.type]
        ELSE IF db = "failing"
        THEN [ready |-> FALSE, artifacts |-> {}, raised |-> OperationalError.type]
        ELSE [ready |-> c.ready, artifacts |-> c.artifacts,
              raised |-> IF all_done THEN a.exc.type ELSE NoExc.type]

\* check_workers_ready of pre_tool_use.py on a database in the given
\* condition: [ready, artifacts, raised].  Without the file the answer is
\* ready at once; an exception raised inside the try block, by the store or
\* by get_ready_artifacts, is caught and answered with ready and no artifact.
CheckWorkersReadyOn(db, rows, log, task_rows, run_id) ==
    LET ws == GetWorkers(rows, run_id)
        c == CheckWorkersReady(rows, log, task_rows, run_id)
        a == GetReadyArtifactsOfList(log, task_rows)
        all_done == ws # {} /\ \A w \in ws : w.row.state = "done"
    IN  IF db = "missing"
        THEN [ready |-> TRUE, artifacts |-> {}, raised |-> NoExc.type]
        ELSE IF db = "failing"
        THEN [ready |-> TRUE, artifacts |-> {}, raised |-> OperationalError.type]
        ELSE [ready |-> c.ready, artifacts |-> c.artifacts,
              raised |-> IF all_done THEN a.exc.type ELSE NoExc.type]

\* check_workers_complete of stop.py on a database in the given condition:
\* [complete, summary, raised].  The summary lists the workers of the run
\* by state; it is the empty dict when there is no file, no worker or an
\* exception.
CheckWorkersCompleteOn(db, rows, run_id) ==
    LET ws == GetWorkers(rows, run_id)
    IN  IF db = "missing"
        THEN [complete |-> TRUE, summary |-> {}, raised |-> NoExc.type]
        ELSE IF db = "failing"
        THEN [complete |-> TRUE, summary |-> {}, raised |-> OperationalError.type]
        ELSE [complete |-> CheckWorkersComplete(rows, run_id),
              summary |-> {<<w.row.state, w.id>> : w \in ws},
              raised |-> NoExc.type]

\* A gate hook has checked the workers on a database in the given condition
\* and its process exited.
GateCheckedOn(hook, op, db, passed, artifacts, summary, raised) ==
    /\ last_gate' = [hook |-> hook, checked |-> TRUE,
                     exit |-> IF passed THEN ExitProceed ELSE ExitBlock,
                     artifacts |-> artifacts]
    /\ last_query' = [NoQuery EXCEPT !.op = op, !.fault = db, !.raised = raised,
                                     !.summary = summary]
    /\ blocked_checks' =
          [blocked_checks EXCEPT ![hook] =
              IF ~passed
              THEN (IF @ <= DefaultMaxRetries THEN @ + 1 ELSE @)
              ELSE 0]
    /\ UNCHANGED <<task_defs, pc, exc, calls, batches, all_results, plans, workers,
                   events, procs, worker_objs, last_call, tasks, blocks, block_seq,
                   now, events_file>>

\* pre_tool_use.py run before a merge tool call
PreToolUseHookOn ==
    \E db \in DatabaseConditions :
        LET c == CheckWorkersReadyOn(db, workers, events, tasks, RunId)
        IN  GateCheckedOn("PreToolUse", "check_workers_ready", db, c.ready,
                          c.artifacts, {}, c.raised)

\* stop.py run before the session ends
StopHookOn ==
    \E db \in DatabaseConditions :
        LET c == CheckWorkersCompleteOn(db, workers, RunId)
        IN  GateCheckedOn("Stop", "check_workers_complete", db, c.complete,
                          {}, c.summary, c.raised)

\* The states a worker of the run is put in.
GateStateArgs == {EnumMember(v) : v \in WorkerStates}

StoreGateUpdate == UpdateWorkerStatusCalled(GateStateArgs, {NoProgress}, {None})

NextGateFaults ==
    \/ StoreGateUpdate
    \/ PreToolUseHookOn
    \/ StopHookOn

SpecGateFaults == Init /\ [][NextGateFaults]_vars

\* ------------------------------------------------- the gates and the run
\* The gate hooks run by the session while the Orchestrator loads and
\* executes its tasks.
NextRunGate ==
    \/ LoadTask
    \/ Execute
    \/ PreToolUseHook
    \/ StopHook

SpecRunGate == Init /\ [][NextRunGate]_vars

\* ------------------------------------------------- the legacy file log
\* The most lines the events file is given.
MaxFileEvents == 4

\* The messages of progress events: one that mentions waiting and one that
\* does not.
ProgressMessages == {"half", "Waiting for lock"}

\* 'waiting' in (event.msg or '').lower()
MentionsWaiting(msg) == msg = "Waiting for lock"

\* A line of events.jsonl, read back by Event.from_json.
LegacyEvent(t, w, task, msg, pct) ==
    [t |-> t, w |-> w, task |-> task, msg |-> msg, pct |-> pct]

\* A worker compute_status has seen no event of, and the entry it makes for
\* a worker at its first event.
NoLegacyWorker == [state |-> "none", percent |-> 0]

InitLegacyWorker == [state |-> "init", percent |-> 0]

\* Variant of ComputeStatusStep: a progress event leaves the state of a
\* worker that is done.
ComputeStatusStepKeepingDone(acc, event) ==
    LET seen == IF acc.workers[event.w] = NoLegacyWorker
                THEN InitLegacyWorker ELSE acc.workers[event.w]
    IN  IF event.w = WorkerId(NoName) THEN acc
        ELSE IF event.t = "start"
        THEN [acc EXCEPT !.workers[event.w] = [state |-> "running", percent |-> 0],
                         !.tasks_pending = @ \cup {event.task}]
        ELSE IF event.t = "progress"
        THEN [acc EXCEPT !.workers[event.w] =
                 [state |-> IF MentionsWaiting(event.msg) /\ seen.state # "done"
                            THEN "waiting" ELSE seen.state,
                  percent |-> IF event.pct # NoProgress THEN event.pct
                              ELSE seen.percent]]
        ELSE IF event.t = "error"
        THEN [acc EXCEPT !.workers[event.w] = [seen EXCEPT !.state = "error"]]
        ELSE IF event.t = "done"
        THEN [acc EXCEPT !.workers[event.w] = [state |-> "done", percent |-> 100],
                         !.tasks_done = @ \cup {event.task},
                         !.tasks_pending = @ \ {event.task}]
        ELSE [acc EXCEPT !.workers[event.w] = seen]

\* The body of the loop of EventStore.compute_status: one event applied to
\* workers_map, tasks_done and tasks_pending.  An event without a worker is
\* passed over.
ComputeStatusStep(acc, event) ==
    LET seen == IF acc.workers[event.w] = NoLegacyWorker
                THEN InitLegacyWorker ELSE acc.workers[event.w]
    IN  IF event.w = WorkerId(NoName) THEN acc
        ELSE IF event.t = "start"
        THEN [acc EXCEPT !.workers[event.w] = [state |-> "running", percent |-> 0],
                         !.tasks_pending = @ \cup {event.task}]
        ELSE IF event.t = "progress"
        THEN [acc EXCEPT !.workers[event.w] =
                 [state |-> IF MentionsWaiting(event.msg)
                            THEN "waiting" ELSE seen.state,
                  percent |-> IF event.pct # NoProgress THEN event.pct
                              ELSE seen.percent]]
        ELSE IF event.t = "error"
        THEN [acc EXCEPT !.workers[event.w] = [seen EXCEPT !.state = "error"]]
        ELSE IF event.t = "done"
        THEN [acc EXCEPT !.workers[event.w] = [state |-> "done", percent |-> 100],
                         !.tasks_done = @ \cup {event.task},
                         !.tasks_pending = @ \ {event.task}]
        ELSE [acc EXCEPT !.workers[event.w] = seen]

RECURSIVE ComputeStatusLoop(_, _)
\* for event in events: the events of the file, first to last.
ComputeStatusLoop(acc, file) ==
    IF file = <<>> THEN acc
    ELSE ComputeStatusLoop(ComputeStatusStep(acc, Head(file)), Tail(file))

\* EventStore.compute_status: [workers, blocked_on, merge_ready].
ComputeStatus(file) ==
    LET acc == ComputeStatusLoop([workers |-> [w \in WorkerIds |-> NoLegacyWorker],
                                  tasks_done |-> {}, tasks_pending |-> {}], file)
    IN  [workers |-> acc.workers,
         blocked_on |-> acc.tasks_pending \ acc.tasks_done,
         merge_ready |-> acc.tasks_pending = {} /\ acc.tasks_done # {}]

\* EventStore.is_all_workers_done
IsAllWorkersDone(file) ==
    \A w \in WorkerIds :
        ComputeStatus(file).workers[w] # NoLegacyWorker =>
            ComputeStatus(file).workers[w].state = "done"

\* The events a worker writes to the file about its task.
LegacyEvents ==
    {LegacyEvent(t, w, TaskOf(w), "", NoProgress) :
        t \in {"start", "error", "done", "artifact"}, w \in StoreWorkers}
    \cup {LegacyEvent("progress", w, TaskOf(w), msg, 50) :
            w \in StoreWorkers, msg \in ProgressMessages}
    \cup {LegacyEvent("start", WorkerId(NoName), 1, "", NoProgress)}

\* EventStore.append_event: a line is added at the end of the file
LegacyAppendEvent ==
    /\ Len(events_file) < MaxFileEvents
    /\ \E event \in LegacyEvents : events_file' = Append(events_file, event)
    /\ UNCHANGED <<task_defs, pc, exc, calls, batches, all_results, plans, workers,
                   events, procs, worker_objs, last_call, tasks, blocks, block_seq,
                   now, last_query, last_gate, blocked_checks>>

NextLegacy == LegacyAppendEvent

SpecLegacy == Init /\ [][NextLegacy]_vars

\* ------------------------------------------- the two logs and their readers
\* The types of the events appended to the store's log.
TimedEventArgs == {EnumMember("start"), EnumMember("done")}

\* EventStoreV2.append_event called on the store as time goes by
StoreTimedAppend ==
    /\ Len(events) < MaxEvents
    /\ \E w \in StoreWorkers, event_type \in TimedEventArgs :
          events' = AppendEvent(events, event_type, RunId, w, TaskOf(w), None,
                                now).events
    /\ UNCHANGED <<task_defs, pc, exc, calls, batches, all_results, plans, workers,
                   procs, worker_objs, last_call>>
    /\ UNCHANGED store_ext

\* The limit and offset arguments a caller of get_events passes.
LimitArgs == {1, DefaultLimit}

OffsetArgs == {0, 1}

\* EventStoreV2.get_events called on the store for a worker of the run
StoreGetEvents ==
    /\ \E w \in StoreWorkers, limit \in LimitArgs, offset \in OffsetArgs :
          last_query' = [NoQuery EXCEPT !.op = "get_events", !.worker = w,
                                        !.limit = limit, !.offset = offset,
                                        !.rows = GetEvents(events, RunId, w, limit,
                                                           offset)]
    /\ UNCHANGED <<task_defs, pc, exc, calls, batches, all_results, plans, workers,
                   events, procs, worker_objs, last_call, tasks, blocks, block_seq,
                   now, last_gate, blocked_checks, events_file>>

\* The worker whose status is computed, and the events it writes to the
\* file about its task.
StatusWorker == WorkerId(1)

StatusEvents ==
    {LegacyEvent(t, StatusWorker, TaskOf(StatusWorker), "", NoProgress) :
        t \in {"start", "error", "done"}}
    \cup {LegacyEvent("progress", StatusWorker, TaskOf(StatusWorker), msg, 50) :
            msg \in ProgressMessages}

\* EventStore.append_event: the worker adds a line at the end of the file
LegacyAppendStatusEvent ==
    /\ Len(events_file) < MaxFileEvents - 2
    /\ \E event \in StatusEvents : events_file' = Append(events_file, event)
    /\ UNCHANGED <<task_defs, pc, exc, calls, batches, all_results, plans, workers,
                   events, procs, worker_objs, last_call, tasks, blocks, block_seq,
                   now, last_query, last_gate, blocked_checks>>

NextEvents ==
    \/ Tick
    \/ StoreTimedAppend
    \/ StoreGetEvents
    \/ LegacyAppendStatusEvent

SpecEvents == Init /\ [][NextEvents]_vars

\* ------------------------------------------------- properties of task sets
UniqueNames(defs) ==
    \A i, j \in 1..Len(defs) : defs[i].name = defs[j].name => i = j

DepsExist(defs) ==
    \A i \in 1..Len(defs) : SeqRange(defs[i].dependencies) \subseteq TaskNames(defs)

\* The names a task named n lists as dependencies.
DepsOfName(defs, n) ==
    UNION {SeqRange(defs[i].dependencies) : i \in {k \in 1..Len(defs) : defs[k].name = n}}

RECURSIVE ReachWithin(_, _, _)
\* The names reached from the names of S along at most k dependency edges.
ReachWithin(defs, S, k) ==
    IF k = 0 THEN S
    ELSE ReachWithin(defs, S \cup UNION {DepsOfName(defs, n) : n \in S}, k - 1)

\* Some task depends, directly or through other tasks, on itself.
HasCycle(defs) ==
    \E n \in TaskNames(defs) :
        n \in ReachWithin(defs, DepsOfName(defs, n), Len(defs))

\* A task set the resolver's contract covers.
Plannable(defs) == UniqueNames(defs) /\ DepsExist(defs) /\ ~HasCycle(defs)

\* The batches (1-based) that hold the task at position i.
BatchesOf(bs, i) == {k \in 1..Len(bs) : i \in SeqRange(bs[k])}

BatchIndex(bs, i) == Min(BatchesOf(bs, i))

\* The positions of the tasks that task i depends on.
DepPositions(defs, i) ==
    {j \in 1..Len(defs) : defs[j].name \in SeqRange(defs[i].dependencies)}

Max(S) == CHOOSE x \in S : \A y \in S : y <= x

ResolverReturned == pc # "loading" /\ "_create_plan" \in SeqRange(calls)

\* C1: for an acyclic task set with unique names whose dependencies all
\* exist, the resolver returns batches whose union is the task set, every
\* task is in exactly one batch (once), and every task's batch index is
\* strictly greater than the batch index of each of its dependencies.
C1_BatchesPartitionInDependencyOrder ==
    (pc # "loading" /\ Plannable(task_defs)) =>
        /\ ResolverReturned
        /\ UNION {SeqRange(batches[k]) : k \in 1..Len(batches)} = 1..Len(task_defs)
        /\ \A i \in 1..Len(task_defs) : Cardinality(BatchesOf(batches, i)) = 1
        /\ \A k \in 1..Len(batches) : Cardinality(SeqRange(batches[k])) = Len(batches[k])
        /\ \A i \in 1..Len(task_defs) : \A j \in DepPositions(task_defs, i) :
              BatchIndex(batches, i) > BatchIndex(batches, j)

\* A chain of three tasks resolved into three batches.
C1_Witness ==
    /\ pc # "loading" /\ Plannable(task_defs)
    /\ Len(task_defs) = 3 /\ Len(batches) = 3
    /\ \E i \in 1..3 : Len(task_defs[i].dependencies) = 2

\* C2: batches are minimal layers: a task with no dependencies is in the
\* first batch and any other task is in the batch right after the latest
\* batch of its dependencies.
C2_BatchesAreMinimalLayers ==
    (pc # "loading" /\ Plannable(task_defs)) =>
        /\ ResolverReturned
        /\ \A i \in 1..Len(task_defs) :
            /\ BatchesOf(batches, i) # {}
            /\ BatchIndex(batches, i) =
                 IF DepPositions(task_defs, i) = {} THEN 1
                 ELSE 1 + Max({BatchIndex(batches, j) : j \in DepPositions(task_defs, i)})

\* A, B (depends on A), C (depends on A) resolved into [[A], [B, C]].
C2_Witness ==
    /\ pc # "loading"
    /\ Len(task_defs) = 3
    /\ task_defs[1].dependencies = <<>>
    /\ task_defs[2].dependencies = <<1>> /\ task_defs[2].name = 2
    /\ task_defs[3].dependencies = <<1>>
    /\ batches = << <<1>>, <<2, 3>> >>

\* C3: for a task set that contains a dependency cycle the resolver raises
\* the cyclic-dependency error and returns no batches, not even those of the
\* tasks outside the cycle; execute then ends with that error whenever
\* validation let the task set through.
C3_CycleRaisesAndYieldsNoBatches ==
    (pc # "loading" /\ HasCycle(task_defs)) =>
        /\ ResolveDependencies(task_defs).raised
        /\ ResolveDependencies(task_defs).batches = <<>>
        /\ pc = "raised" /\ exc.type = "ValueError" /\ batches = <<>>
        /\ DepsExist(task_defs) =>
              /\ exc = CyclicDependency
              /\ calls = <<"_validate_dependencies", "_resolve_dependencies">>

\* A cycle of two tasks beside a task with no dependencies, whose batch is
\* dropped.
C3_Witness ==
    /\ pc = "raised" /\ exc = CyclicDependency
    /\ Len(task_defs) = 3 /\ UniqueNames(task_defs)
    /\ task_defs[1].dependencies = <<>>
    /\ task_defs[2].dependencies = <<3>>
    /\ task_defs[3].dependencies = <<2>>
    /\ batches = <<>>

\* C4: when some task lists a dependency that names no task of the set,
\* execute ends in validation with the unknown-dependency error naming that
\* task and that dependency, and the resolver is never entered.
C4_UnknownDependencyRejectedBeforeResolution ==
    (pc # "loading" /\ ~DepsExist(task_defs)) =>
        /\ pc = "raised"
        /\ exc.type = "ValueError" /\ exc.msg = "depends on unknown task"
        /\ \E i \in 1..Len(task_defs) :
              /\ task_defs[i].name = exc.task
              /\ exc.dep \in SeqRange(task_defs[i].dependencies)
              /\ exc.dep \notin TaskNames(task_defs)
        /\ calls = <<"_validate_dependencies">>
        /\ batches = <<>>

\* Two tasks, the second depending on a name that no task carries.
C4_Witness ==
    /\ pc = "raised" /\ exc.msg = "depends on unknown task"
    /\ Len(task_defs) = 2
    /\ task_defs[1].dependencies = <<>>
    /\ exc.task = 2 /\ exc.dep = 3

\* C7: when execute fails in validation or in resolution, no plan has been
\* persisted, no worker record exists, no event has been appended and no
\* subprocess has been launched.
C7_PlanningErrorsLeaveNoTrace ==
    (pc = "raised" /\ exc.type = "ValueError") =>
        /\ plans = {}
        /\ \A w \in WorkerIds : workers[w] = NoRow
        /\ events = <<>>
        /\ procs = {}

\* execute has failed in resolution, after validation passed.
C7_Witness ==
    /\ pc = "raised" /\ exc = CyclicDependency
    /\ Len(task_defs) = 2
    /\ plans = {} /\ events = <<>>


\* C6: a task's failure halts neither its batch nor a later batch: in a run
\* of a plannable task set in which some task's command fails, once execute
\* has ended every task of the set has been run to a terminal state.
C6_FailureHaltsNeitherBatchNorRun ==
    (/\ pc # "loading"
     /\ Plannable(task_defs)
     /\ \E i \in 1..Len(task_defs) : task_defs[i].command = "false") =>
        \A i \in 1..Len(task_defs) :
            workers[WorkerId(task_defs[i].name)].state \in {"done", "error"}


\* C8: a worker whose command exits 0 ends in state done with progress 100;
\* a worker whose command exits nonzero or times out ends in state error
\* with progress 0 and a non-empty last message.  Stated of every call of
\* Worker.execute_command, at its end.
C8_CommandOutcomeDecidesFinalState ==
    [][WorkerExecuteCommand =>
         LET row == workers'[last_call'.worker]
         IN  IF last_call'.command = "true"
             THEN row.state = "done" /\ row.progress = 100
             ELSE /\ row.state = "error" /\ row.progress = 0
                  /\ row.last_message \notin {None, ""}]_vars

\* C9: terminal states are absorbing: once a worker's row is in state done,
\* error or dead, no operation on the store or on the Worker changes the
\* row's state.
C9_TerminalStatesAreAbsorbing ==
    [][\A w \in WorkerIds :
          workers[w].state \in {"done", "error", "dead"} =>
              workers'[w].state = workers[w].state]_vars


\* C12: the result list execute returns has exactly one entry per task of
\* the task set, each with that task's success flag; a run in which some
\* task fails still completes, and the failures counted are the tasks whose
\* command failed.
C12_ResultListHasOneEntryPerTask ==
    (pc # "loading" /\ Plannable(task_defs)) =>
        /\ pc = "returned"
        /\ Len(all_results) = Len(task_defs)
        /\ Cardinality({i \in 1..Len(all_results) : ~all_results[i].success}) =
           Cardinality({i \in 1..Len(task_defs) : task_defs[i].command = "false"})

\* The workers of the run that are in a given set of states.
WorkersIn(rows, states) ==
    {w.id : w \in {x \in GetAllWorkers(rows, RunId) : x.row.state \in states}}

\* The artifact events of the log that carry a path.
ArtifactEvents(log) ==
    {i \in 1..Len(log) : log[i].event_type = "artifact" /\ JsonExtractPath(log[i]) # None}

C14_ArtifactOfDoneWorkerIsReady ==
    \A i \in ArtifactEvents(events) :
        workers[WorkerId(events[i].task_id)].state = "done" =>
            JsonExtractPath(events[i]) \in GetReadyArtifacts(events, tasks, RunId)

\* The row of a (worker, hook_event) pair that was inserted last.
LatestInserted(bs, worker_id, hook_event) ==
    LET P == BlocksOfPair(bs, worker_id, hook_event)
    IN  IF P = {} THEN NoBlock ELSE bs[Max(P)]

\* C15: create_block returns not-accepted exactly when the retry count of
\* the (worker, hook_event) pair has reached max_retries, the count being the
\* one stored in the pair's latest block advanced by this call; in every
\* other case, a pair without a block included, it returns accepted and
\* inserts a new block.
C15_RejectedExactlyWhenRetriesExhausted ==
    [][StoreCreateBlock =>
         LET q == last_query'
             prior == LatestInserted(blocks, q.worker, q.hook_event)
         IN  /\ ~q.accepted <=> NextRetryCount(prior) >= q.max_retries
             /\ q.accepted => Len(blocks') = Len(blocks) + 1]_vars

\* C16: a stored block is returned by get_active_blocks, called with no
\* filter or with the block's own hook_event, exactly while the current time
\* is before the block's expiry.
C16_ActiveUntilExpiry ==
    \A i \in 1..Len(blocks) : \A f \in {None, blocks[i].hook_event} :
        (blocks[i].id \in GetActiveBlocks(blocks, now, f).active) <=> (now < blocks[i].expiry)

\* C17: a gate that looks at the workers of the run exits with the block
\* value exactly when some worker is idle, busy or blocked; when every worker
\* is done, error or dead it exits with 0 and surfaces the ready artifact
\* paths.  Stated of both gates, so they agree on the same worker states.
C17_GateBlocksIffSomeWorkerNonTerminal ==
    [][((PreToolUseHook \/ StopHook) /\ last_gate'.checked) =>
         LET active == WorkersIn(workers, WorkerStates \ TerminalStates)
         IN  /\ last_gate'.exit = ExitBlock <=> active # {}
             /\ active = {} =>
                  /\ last_gate'.exit = ExitProceed
                  /\ last_gate'.artifacts = GetReadyArtifacts(events, tasks, RunId)]_vars

\* C18: when a gate has blocked max_retries times in a row and a worker is
\* still not terminal, the next run of the gate neither blocks again nor
\* lets the caller proceed: it ends with a third outcome, a hard failure.
C18_RetryExhaustionIsAHardFailure ==
    [][((PreToolUseHook \/ StopHook) /\ last_gate'.checked
          /\ blocked_checks[last_gate'.hook] >= DefaultMaxRetries
          /\ WorkersIn(workers, WorkerStates \ TerminalStates) # {}) =>
         last_gate'.exit \notin {ExitProceed, ExitBlock}]_vars

\* C19: append_event gives every event an id of its own, and an event
\* committed later an id strictly greater than that of every event committed
\* before it, whichever workers the appends come from.
C19_EventIdsStrictlyIncrease ==
    \A i, j \in 1..Len(events) : i < j => events[i].id < events[j].id

\* Two workers have appended events, one after the other.
C19_Witness ==
    /\ Len(events) >= 2
    /\ events[1].worker_id # events[2].worker_id
    /\ events[2].id = 2

FreshRow(run_id, t) ==
    [run_id |-> run_id, state |-> "idle", progress |-> 0, task_id |-> NoName,
     last_message |-> None, started_at |-> Second(t), last_heartbeat |-> Second(t),
     updated |-> t]

\* Table workers after an upsert of worker w at instant t: the row, a fresh
\* one when there was none, takes the fields that are given and the
\* heartbeat of the instant; every other row is as before.
UpsertOutcome(rows, w, state, progress, message, t) ==
    LET base == IF rows[w] = NoRow THEN FreshRow(RunId, t) ELSE rows[w]
    IN  [v \in DOMAIN rows |->
           IF v # w THEN rows[v]
           ELSE [run_id |-> base.run_id,
                 state |-> IF state = NoState THEN base.state ELSE state.value,
                 progress |-> IF progress = NoProgress THEN base.progress ELSE progress,
                 task_id |-> base.task_id,
                 last_message |-> IF message = None THEN base.last_message ELSE message,
                 started_at |-> base.started_at,
                 last_heartbeat |-> Second(t),
                 updated |-> t]]

Silence(w) == now - workers[w].updated

\* The workers whose state is busy or blocked.
Watched == {w \in WorkerIds : workers[w] # NoRow /\ workers[w].state \in {"busy", "blocked"}}

\* C26, as first stated: detect_dead_workers(timeout) returns exactly the
\* busy or blocked workers whose last status update is older than timeout
\* seconds.
C26_DeadAreExactlyTheSilentLongerThanTimeout ==
    \A timeout_seconds \in Timeouts :
        DetectDeadWorkers(workers, now, timeout_seconds) =
            {w \in Watched : Silence(w) > timeout_seconds * TicksPerSecond}

\* C26, amended: detect_dead_workers(timeout) returns only busy or blocked
\* workers whose last status update is older than timeout seconds, and
\* every such worker once the update is older by a further second; the
\* call leaves table workers as it is.
C26_DeadWorkersUpToOneSecond ==
    /\ [](\A timeout_seconds \in Timeouts :
            LET dead == DetectDeadWorkers(workers, now, timeout_seconds)
            IN  /\ \A w \in dead :
                      w \in Watched /\ Silence(w) > timeout_seconds * TicksPerSecond
                /\ \A w \in Watched :
                      Silence(w) >= (timeout_seconds + 1) * TicksPerSecond => w \in dead)
    /\ [][(last_query' # last_query /\ last_query'.op = "detect_dead_workers") =>
             /\ workers' = workers
             /\ last_query'.dead =
                   DetectDeadWorkers(workers, now, last_query'.timeout)]_vars

\* A call has just returned a worker, while a done worker that has been
\* silent as long and a busy worker that was updated since are not returned.
C26_Witness ==
    /\ last_query.op = "detect_dead_workers"
    /\ last_query.dead = DetectDeadWorkers(workers, now, last_query.timeout)
    /\ \E w, v \in StoreWorkers :
          /\ last_query.dead = {w}
          /\ workers[v] # NoRow
          /\ \/ workers[v].state = "done" /\ Silence(v) >= Silence(w)
             \/ workers[v].state = "busy" /\ Silence(v) = 0


\* C22: every mutation of the store is atomic.  When a statement of a
\* call's transaction, or its COMMIT, raises, the tables are exactly as
\* before the call and the exception reaches the caller.
C22_FailedTransactionLeavesNoTrace ==
    [][last_query'.failed =>
         /\ workers' = workers /\ events' = events
         /\ blocks' = blocks /\ block_seq' = block_seq
         /\ last_query'.raised # "none"]_vars

\* A call whose statements had written failed at COMMIT, on a store that
\* holds a worker row, an event and a block.
C22_Witness ==
    /\ last_query.fault = "commit" /\ last_query.failed
    /\ last_query.op = "create_block"
    /\ blocks # <<>> /\ events # <<>>
    /\ \E w \in StoreWorkers : workers[w] # NoRow


\* C23: no update of the retry counter is lost.  No two blocks of the
\* same (worker, hook_event) pair in table blocks carry the same
\* retry_count.
C23_RetryCountsOfAPairAreDistinct ==
    \A i, j \in 1..Len(blocks) :
        (/\ i # j
         /\ blocks[i].worker_id = blocks[j].worker_id
         /\ blocks[i].hook_event = blocks[j].hook_event)
        => blocks[i].retry_count # blocks[j].retry_count


\* The ids of the rows of table blocks.
BlockIds(bs) == {bs[i].id : i \in 1..Len(bs)}

\* C29: expired blocks are purged lazily.  A block leaves table blocks
\* only in a call of get_active_blocks and only once its expiry has
\* passed; after the call no block whose expiry has passed is left, and
\* the blocks returned are the ones left (of the hook event asked for).
C29_OnlyExpiredBlocksArePurged ==
    [][/\ \A i \in 1..Len(blocks) :
             blocks[i].id \notin BlockIds(blocks') =>
                 /\ last_query'.op = "get_active_blocks"
                 /\ blocks[i].expiry <= now
       /\ (last_query' # last_query /\ last_query'.op = "get_active_blocks") =>
             /\ \A i \in 1..Len(blocks') : blocks'[i].expiry >= now
             /\ last_query'.active =
                   {blocks'[i].id : i \in
                       {k \in 1..Len(blocks') :
                           last_query'.hook_event \in {None, blocks'[k].hook_event}}}]_vars


\* The Worker methods that record an event before anything else.
RecordingMethods ==
    {"send_heartbeat", "update_progress", "report_artifact", "report_error",
     "report_done", "execute_command"}

C25_ExecuteCommandNeverRaises ==
    last_call.op = "execute_command" => last_call.raised = "none"

\* C30: the progress of every worker is within 0..100, and while a worker
\* is in a state that is not terminal the progress written to its row
\* never decreases.
C30_ProgressNeverDecreases ==
    [][\A w \in WorkerIds :
          workers'[w] # NoRow =>
              /\ workers'[w].progress \in 0..100
              /\ (/\ workers[w] # NoRow
                  /\ workers[w].state \notin TerminalStates
                  /\ workers'[w].state \notin TerminalStates)
                 => workers'[w].progress >= workers[w].progress]_vars


C31_PlanPersistedBeforeWorkers ==
    /\ (pc # "loading" /\ Plannable(task_defs) /\ task_defs # <<>>) =>
          /\ calls = <<"_validate_dependencies", "_resolve_dependencies", "_create_plan">>
          /\ \E plan \in plans :
                /\ plan.run_id = RunId
                /\ Len(plan.tasks) = Len(task_defs)
                /\ SeqRange(plan.tasks) = 1..Len(task_defs)
    /\ (\E w \in WorkerIds : workers[w] # NoRow) => plans # {}

\* C33: a run ends.  For a task set the resolver's contract covers,
\* execute returns, and when it has every task has a worker record in
\* state done or error.
C33_ExecuteReturnsWithAllTasksTerminal ==
    (pc # "loading" /\ Plannable(task_defs)) =>
        /\ exc = NoExc
        /\ pc \in {"returned", "executing"}
        /\ pc = "returned" =>
              \A i \in 1..Len(task_defs) :
                  /\ workers[WorkerId(task_defs[i].name)] # NoRow
                  /\ workers[WorkerId(task_defs[i].name)].state \in {"done", "error"}


\* The events of the log that worker w appended, in append order.
EventsOf(log, w) == SelectSeq(log, LAMBDA e : e.worker_id = w)

\* C37: the events of a worker are well formed.  Once execute_command has
\* run for a worker, the worker's events begin with a start event and hold
\* exactly one terminal event (done or error), which is the last of them.
C37_WorkerEventsAreWellFormed ==
    last_call.op = "execute_command" =>
        LET es == EventsOf(events, last_call.worker)
        IN  /\ es # <<>>
            /\ es[1].event_type = "start"
            /\ es[Len(es)].event_type \in {"done", "error"}
            /\ Cardinality({k \in 1..Len(es) : es[k].event_type \in {"done", "error"}}) = 1


\* C36: retries are bounded.  With every create_block call of a pair made
\* with max_retries = N, at most N calls are ever accepted (an accepted call
\* is an inserted row, and ids count the rows ever inserted), the accepted
\* blocks carry the retry counts 0, 1, ..., N-1 in turn, and a call is
\* rejected only after N were accepted, whatever was purged in between.
C36_AtMostMaxRetriesBlocksAccepted ==
    /\ block_seq <= MaxRetries
    /\ \A i \in 1..Len(blocks) : blocks[i].retry_count = blocks[i].id - 1
    /\ (last_query.op = "create_block" /\ ~last_query.accepted) =>
          block_seq = MaxRetries


\* C38: once every worker of the run is terminal (done, error or dead) no
\* gate blocks: the exit status of either gate, which depends on the worker
\* rows alone, is the one that lets the caller proceed, so a gate polled
\* again after the run has ended cannot go on blocking.
C38_NoTerminalConfigurationBlocks ==
    LET ws == GetWorkers(workers, RunId)
    IN  (ws # {} /\ \A w \in ws : w.row.state \in TerminalStates) =>
            /\ PreToolUseMain(TRUE, workers, events, tasks, RunId).exit = ExitProceed
            /\ StopMain(workers, RunId).exit = ExitProceed


\* The checks of the two gates.
GateChecks == {"check_workers_ready", "check_workers_complete"}

C35_PassingGateImpliesRunComplete ==
    (pc # "loading" /\ Len(batches) > 1
       /\ last_gate.checked /\ last_gate.exit = ExitProceed) =>
        \A i \in 1..Len(task_defs) :
            /\ workers[WorkerId(task_defs[i].name)] # NoRow
            /\ workers[WorkerId(task_defs[i].name)].state \in TerminalStates


\* The tasks a worker has written an event of the given type about.
TasksWith(file, t) ==
    {file[i].task : i \in {j \in 1..Len(file) :
                              file[j].t = t /\ file[j].w # WorkerId(NoName)}}

\* C40: of the status computed from the events file: merge_ready is true
\* exactly when some task has a done event and every task with a start event
\* has a done event; a task that was started and ended in error, with no
\* done event, is in blocked_on and keeps merge_ready false; and a progress
\* event does not change the state of a worker that is shown as done.
C40_LegacyStatusFromLog ==
    LET status == ComputeStatus(events_file)
        started == TasksWith(events_file, "start")
        done == TasksWith(events_file, "done")
        failed == TasksWith(events_file, "error")
    IN  /\ status.merge_ready <=> (done # {} /\ started \subseteq done)
        /\ \A task \in (started \cap failed) \ done :
              task \in status.blocked_on /\ ~status.merge_ready
        /\ \A k \in 1..(Len(events_file) - 1) :
              LET before == ComputeStatus(SubSeq(events_file, 1, k))
                  after == ComputeStatus(SubSeq(events_file, 1, k + 1))
                  event == events_file[k + 1]
              IN  (event.t = "progress" /\ event.w # WorkerId(NoName)
                     /\ before.workers[event.w].state = "done") =>
                      after.workers[event.w].state = "done"


RECURSIVE Reverse(_)
Reverse(s) == IF s = <<>> THEN <<>> ELSE Reverse(Tail(s)) \o <<Head(s)>>

\* The events of the file that are lifecycle events of worker w, in file
\* order, and the states a worker is shown in after each of them: a worker
\* that has started may be shown as waiting.
LifecycleEventsOf(file, w) ==
    SelectSeq(file, LAMBDA e : e.w = w /\ e.t \in {"start", "error", "done"})

ShownAfter(t) ==
    IF t = "start" THEN {"running", "waiting"}
    ELSE IF t = "error" THEN {"error"} ELSE {"done"}

\* C32: status derivation follows append order.  get_events returns the
\* events of a worker newest first in append order, whatever their
\* timestamps, and the state compute_status shows for a worker is the one
\* its last lifecycle event in the file stands for.
C32_StatusFollowsAppendOrder ==
    /\ \A w \in StoreWorkers, limit \in LimitArgs, offset \in OffsetArgs :
          LET newest_first == Reverse(EventsOf(events, w))
              last == IF offset + limit < Len(newest_first)
                      THEN offset + limit ELSE Len(newest_first)
          IN  GetEvents(events, RunId, w, limit, offset) =
                  SubSeq(newest_first, offset + 1, last)
    /\ \A w \in StoreWorkers :
          LET lifecycle == LifecycleEventsOf(events_file, w)
          IN  lifecycle # <<>> =>
                  ComputeStatus(events_file).workers[w].state
                      \in ShownAfter(lifecycle[Len(lifecycle)].t)

=============================================================================
